---- MODULE Spec2Model ----
(***************************************************************************)
(* A model of AnyToSticker's image_processor.cpp: the sticker size         *)
(* computation (IEEE-754 double arithmetic included), the animated-format  *)
(* sniffer, the single-file pipelines and the batch driver.                *)
(***************************************************************************)
EXTENDS Integers, Sequences, FiniteSets, TLC

VARIABLES
  \* the size computation on its own (SizeSpec)
  inW, inH,      \* the arguments (cols, rows of the input image)
  sizeOut,       \* what CalculateTelegramSize returned
  resizeOut,     \* what ResizeForTelegram then did
  sizePc,        \* "call" | "sized" | "resized"
  \* single-file mode of main (FileSpec)
  probe,         \* the input file
  probeAnimated, \* what IsAnimatedImage answered
  probeOut,      \* the outcome of ProcessAnimation / ProcessImage
  probePc,       \* "start" | "sniffed" | "done"
  \* batch mode: ProcessDirectory (Spec)
  dirEntries,    \* the entries of the input directory
  pattern,       \* options.pattern
  format,        \* options.format: "PNG" | "WEBP"
  outDir,        \* what is at the output path: "absent" | "dir" | "file"
  canCreate,     \* whether fs::create_directories would succeed there
  pc,            \* "start" | "loop" | "done"
  files,         \* the sorted match list
  idx,           \* the loop's position in files
  results,       \* the ProcessingResults collected so far
  outFiles,      \* the files written under the output directory
  processed,     \* the inputs a pipeline has been run on, in order
  listed,        \* whether GetMatchingFiles has been called
  listFailed     \* whether the directory enumeration raised an error

sizeVars == <<inW, inH, sizeOut, resizeOut, sizePc>>
fileVars == <<probe, probeAnimated, probeOut, probePc>>
envVars == <<dirEntries, pattern, format, canCreate>>
batchVars == <<envVars, outDir, pc, files, idx, results, outFiles, processed,
               listed, listFailed>>

vars == <<sizeVars, fileVars, batchVars>>

(***************************************************************************)
(* Bounds of the model.                                                    *)
(***************************************************************************)
MaxDim == 12
MaxFiles == 3

(***************************************************************************)
(* IEEE-754 binary64, non-negative values only (cv::Mat cols and rows are  *)
(* never negative).  A finite non-zero double is m * 2^e with              *)
(* 2^52 <= m < 2^53.  TLC's integers are 32 bits wide, so a significand is *)
(* a pair <<hi, lo>> standing for hi * 2^27 + lo with 0 <= lo < 2^27.      *)
(***************************************************************************)
LimbBase == 2^27

BigOf(n) == <<n \div LimbBase, n % LimbBase>>

BigDbl(x) == <<2 * x[1] + (2 * x[2]) \div LimbBase, (2 * x[2]) % LimbBase>>

BigHalf(x) == <<x[1] \div 2, (x[1] % 2) * (LimbBase \div 2) + x[2] \div 2>>

BigInc(x) ==
  IF x[2] + 1 = LimbBase THEN <<x[1] + 1, 0>> ELSE <<x[1], x[2] + 1>>

BigGeq(x, y) == x[1] > y[1] \/ (x[1] = y[1] /\ x[2] >= y[2])

BigSub(x, y) ==
  IF x[2] >= y[2] THEN <<x[1] - y[1], x[2] - y[2]>>
  ELSE <<x[1] - y[1] - 1, x[2] + LimbBase - y[2]>>

BigOdd(x) == x[2] % 2 = 1

\* 2^52 and 2^53 as pairs
TwoTo52 == <<2^25, 0>>
TwoTo53 == <<2^26, 0>>

DZero == [cls |-> "zero"]
DInf  == [cls |-> "inf"]
DNaN  == [cls |-> "nan"]
DFin(m, e) == [cls |-> "fin", m |-> m, e |-> e]

RECURSIVE Normalize(_, _)
Normalize(m, e) ==
  IF BigGeq(m, TwoTo52) THEN DFin(m, e) ELSE Normalize(BigDbl(m), e - 1)

\* static_cast<double>(int) and the implicit int -> double conversion: exact
FromInt(n) == IF n = 0 THEN DZero ELSE Normalize(BigOf(n), 0)

\* k steps of binary long division by d on p = <<quotient bits, remainder>>
RECURSIVE DivLoop(_, _, _)
DivLoop(p, d, k) ==
  IF k = 0 THEN p
  ELSE LET r2 == BigDbl(p[2]) IN
       IF BigGeq(r2, d)
       THEN DivLoop(<<BigInc(BigDbl(p[1])), BigSub(r2, d)>>, d, k - 1)
       ELSE DivLoop(<<BigDbl(p[1]), r2>>, d, k - 1)

\* round to nearest, ties to even, on a 53-bit quotient q with remainder r of d
RoundQuotient(q, r, d, e) ==
  LET r2 == BigDbl(r)
      up == IF r2 = d THEN BigOdd(q) ELSE BigGeq(r2, d)
      q1 == IF up THEN BigInc(q) ELSE q
  IN  IF q1 = TwoTo53 THEN DFin(TwoTo52, e + 1) ELSE DFin(q1, e)

\* a / b on doubles
FDiv(a, b) ==
  CASE a.cls = "nan" \/ b.cls = "nan" -> DNaN
    [] a.cls = "inf" -> IF b.cls = "inf" THEN DNaN ELSE DInf
    [] b.cls = "inf" -> DZero
    [] b.cls = "zero" -> IF a.cls = "zero" THEN DNaN ELSE DInf
    [] a.cls = "zero" -> DZero
    [] OTHER ->
         IF BigGeq(a.m, b.m)
         THEN LET qr == DivLoop(<<<<0, 1>>, BigSub(a.m, b.m)>>, b.m, 52)
              IN  RoundQuotient(qr[1], qr[2], b.m, a.e - b.e - 52)
         ELSE LET qr == DivLoop(<<<<0, 0>>, a.m>>, b.m, 53)
              IN  RoundQuotient(qr[1], qr[2], b.m, a.e - b.e - 53)

\* 512 * x on doubles: 512.0 is 2^9, and scaling by a power of two is exact
Mul512(x) == IF x.cls = "fin" THEN DFin(x.m, x.e + 9) ELSE x

\* a >= 1.0 on doubles (false for NaN)
GeqOne(a) ==
  CASE a.cls = "inf" -> TRUE
    [] a.cls = "fin" -> a.e >= -52
    [] OTHER -> FALSE

RECURSIVE BigShr(_, _)
BigShr(x, k) ==
  IF k = 0 \/ x = <<0, 0>> THEN x ELSE BigShr(BigHalf(x), k - 1)

IntMax == 2147483647
IntMin == -2147483647 - 1

\* what static_cast<int> of an unrepresentable double (NaN, infinity, out of
\* range) produces: undefined behaviour; cvttsd2si gives INT_MIN, fcvtzs
\* saturates (NaN to 0)
UndefinedInts == {IntMin, 0, IntMax}

\* static_cast<int>(double): truncation toward zero; the set of possible outcomes
ToInt(x) ==
  CASE x.cls = "zero" -> {0}
    [] x.cls = "fin" ->
         IF x.e >= 0 THEN UndefinedInts
         ELSE IF x.e < -52 THEN {0}
         ELSE LET t == BigShr(x.m, -x.e) IN
              IF t[1] >= 16 THEN UndefinedInts ELSE {t[1] * LimbBase + t[2]}
    [] OTHER -> UndefinedInts

Size(w, h) == [kind |-> "size", width |-> w, height |-> h]

\* CalculateTelegramSize with the wide branch scaling by the ratio instead of
\* dividing by it
CalculateTelegramSizeScaleSwapped(width, height) ==
  LET aspectRatio == FDiv(FromInt(width), FromInt(height)) IN
  IF GeqOne(aspectRatio)
  THEN {Size(512, hh) : hh \in ToInt(Mul512(aspectRatio))}
  ELSE {Size(ww, 512) : ww \in ToInt(Mul512(aspectRatio))}

\* ImageProcessor::CalculateTelegramSize: the set of sizes it can return
CalculateTelegramSize(width, height) ==
  LET aspectRatio == FDiv(FromInt(width), FromInt(height)) IN
  IF GeqOne(aspectRatio)
  THEN {Size(512, hh) : hh \in ToInt(FDiv(FromInt(512), aspectRatio))}
  ELSE {Size(ww, 512) : ww \in ToInt(Mul512(aspectRatio))}

(***************************************************************************)
(* Images and the OpenCV calls of the pipeline.                            *)
(***************************************************************************)
Mat(c, r, ch) == [kind |-> "mat", cols |-> c, rows |-> r, channels |-> ch]

\* cv::Mat(): what imread and ReadGifFirstFrame return on failure
EmptyMat == Mat(0, 0, 1)

\* cv::Mat::empty()
MatEmpty(m) == m.cols = 0 \/ m.rows = 0

Thrown == [kind |-> "throw"]
None == [kind |-> "none"]

\* cv::resize(input, output, dsize, 0, 0, INTER_LANCZOS4): a cv::Exception
\* for an empty source or an empty dsize, else an image of size dsize
cvResize(input, dsize) ==
  IF MatEmpty(input) \/ dsize.width <= 0 \/ dsize.height <= 0
  THEN Thrown
  ELSE Mat(dsize.width, dsize.height, input.channels)

\* ImageProcessor::ResizeForTelegram: the set of its possible outcomes
ResizeForTelegram(input) ==
  {cvResize(input, targetSize) :
     targetSize \in CalculateTelegramSize(input.cols, input.rows)}

\* the alpha step of both pipelines: cv::split, push_back(alpha), cv::merge
\* for 3 channels, the image itself otherwise
AddAlpha(image) ==
  IF image.channels = 3 THEN Mat(image.cols, image.rows, 4) ELSE image

\* ImageProcessor::SaveImage; write is what cv::imwrite does this time:
\* "ok" (true), "fail" (false) or "throw" (cv::Exception, caught here)
SaveImage(image, write) == write = "ok"

WriteOutcomes == {"ok", "fail", "throw"}

(***************************************************************************)
(* File names: strings are sequences of character codes.                   *)
(***************************************************************************)
LowerLetters == <<"a", "b", "c", "d", "e", "f", "g", "h", "i", "j", "k", "l", "m",
                  "n", "o", "p", "q", "r", "s", "t", "u", "v", "w", "x", "y", "z">>
UpperLetters == <<"A", "B", "C", "D", "E", "F", "G", "H", "I", "J", "K", "L", "M",
                  "N", "O", "P", "Q", "R", "S", "T", "U", "V", "W", "X", "Y", "Z">>

\* the ASCII code of a character
Ord(c) ==
  CASE c = "." -> 46
    [] c = "*" -> 42
    [] \E i \in 1 .. 26 : LowerLetters[i] = c ->
         96 + (CHOOSE i \in 1 .. 26 : LowerLetters[i] = c)
    [] \E i \in 1 .. 26 : UpperLetters[i] = c ->
         64 + (CHOOSE i \in 1 .. 26 : UpperLetters[i] = c)

Str(t) == [i \in 1 .. Len(t) |-> Ord(t[i])]

\* std::tolower in the "C" locale
tolower(c) == IF c >= 65 /\ c <= 90 THEN c + 32 ELSE c

\* the lowercase loops: lowerExt[i] = std::tolower(ext[i])
ToLowerStr(s) == [i \in 1 .. Len(s) |-> tolower(s[i])]

\* std::filesystem::path::extension() of a file name: from the last dot on,
\* empty for ".", ".." and for a name whose only dot is its first character
Extension(name) ==
  LET dots == {i \in 1 .. Len(name) : name[i] = 46} IN
  IF dots = {} \/ name = <<46>> \/ name = <<46, 46>> THEN <<>>
  ELSE LET k == CHOOSE i \in dots : \A j \in dots : j <= i IN
       IF k = 1 THEN <<>> ELSE SubSeq(name, k, Len(name))

(***************************************************************************)
(* Files.  A file has a name, and contents: whether fopen succeeds, its    *)
(* bytes (as far as the sniffer may look), what cv::imread returns for it, *)
(* and what giflib finds in it.                                            *)
(***************************************************************************)
Gif(open, slurp, count, globalMap, localMap, w, h) ==
  [open |-> open, slurp |-> slurp, imageCount |-> count,
   globalMap |-> globalMap, localMap |-> localMap, width |-> w, height |-> h]

NotGif == Gif(FALSE, FALSE, 0, FALSE, FALSE, 0, 0)

Content(readable, bytes, imread, gif) ==
  [readable |-> readable, bytes |-> bytes, imread |-> imread, gif |-> gif]

File(name, regular, content) ==
  [name |-> name, regular |-> regular, content |-> content]

WEBP == <<"W", "E", "B", "P">>

\* IsAnimatedImage comparing the extension as it is spelt
IsAnimatedImageCaseSensitive(f) ==
  LET ext == Extension(f.name)
      read == IF Len(f.content.bytes) < 16 THEN Len(f.content.bytes) ELSE 16
  IN  IF ext = Str(<<".", "g", "i", "f">>) THEN TRUE
      ELSE IF ext = Str(<<".", "w", "e", "b", "p">>)
           THEN IF ~f.content.readable THEN FALSE
                ELSE IF read < 16 THEN FALSE
                ELSE SubSeq(f.content.bytes, 13, 16) = WEBP
      ELSE FALSE

\* ImageProcessor::IsAnimatedImage
IsAnimatedImage(f) ==
  LET lowerExt == ToLowerStr(Extension(f.name))
      read == IF Len(f.content.bytes) < 16 THEN Len(f.content.bytes) ELSE 16
  IN  IF lowerExt = Str(<<".", "g", "i", "f">>) THEN TRUE
      ELSE IF lowerExt = Str(<<".", "w", "e", "b", "p">>)
           THEN IF ~f.content.readable THEN FALSE
                ELSE IF read < 16 THEN FALSE
                ELSE SubSeq(f.content.bytes, 13, 16) = WEBP
      ELSE FALSE

\* ReadGifFirstFrame: an empty Mat on any failure, else a 4-channel image
ReadGifFirstFrame(f) ==
  LET gif == f.content.gif IN
  IF ~gif.open THEN EmptyMat
  ELSE IF ~gif.slurp THEN EmptyMat
  ELSE IF gif.imageCount < 1 THEN EmptyMat
  ELSE IF ~(gif.globalMap \/ gif.localMap) THEN EmptyMat
  ELSE Mat(gif.width, gif.height, 4)

\* the outcome of one run of a pipeline: its boolean result, the decoders it
\* called in order, the channel count it handed to ResizeForTelegram (0 when
\* it never got there), and the image it wrote (EmptyMat when none)
Outcome(success, decoders, channels, written) ==
  [kind |-> "outcome", success |-> success, decoders |-> decoders,
   channels |-> channels, written |-> written]

\* the alpha step, the resize and the save, common to both pipelines
AfterDecode(image, decoders, write) ==
  LET processedImage == AddAlpha(image) IN
  {IF resized.kind = "throw"
   THEN Outcome(FALSE, decoders, processedImage.channels, EmptyMat)
   ELSE IF SaveImage(resized, write)
        THEN Outcome(TRUE, decoders, processedImage.channels, resized)
        ELSE Outcome(FALSE, decoders, processedImage.channels, EmptyMat) :
     resized \in ResizeForTelegram(processedImage)}

\* ImageProcessor::ProcessImage: the set of its possible outcomes
ProcessImage(f, write) ==
  LET image == f.content.imread IN
  IF MatEmpty(image)
  THEN {Outcome(FALSE, <<"imread">>, 0, EmptyMat)}
  ELSE AfterDecode(image, <<"imread">>, write)

\* ImageProcessor::ProcessAnimation: the set of its possible outcomes
ProcessAnimation(f, write) ==
  LET ext == Extension(f.name)
      useGiflib == ext = Str(<<".", "g", "i", "f">>)
                   \/ ext = Str(<<".", "G", "I", "F">>)
      firstFrame == IF useGiflib THEN ReadGifFirstFrame(f) ELSE f.content.imread
      decoders == IF useGiflib THEN <<"giflib">> ELSE <<"imread">>
  IN  IF MatEmpty(firstFrame)
      THEN {Outcome(FALSE, decoders, 0, EmptyMat)}
      ELSE AfterDecode(firstFrame, decoders, write)

(***************************************************************************)
(* SizeSpec: ResizeForTelegram on an image of inW x inH, in two steps: the *)
(* size computation, then cv::resize.  An empty cv::Mat (a zero dimension) *)
(* is a legal argument of the public ResizeForTelegram.                    *)
(***************************************************************************)
SampleDims == {93, 128, 300, 512, 600, 1024, 1025}

Dims == (0 .. MaxDim) \cup SampleDims

FileIdle ==
  /\ probe = None
  /\ probeAnimated = None
  /\ probeOut = None
  /\ probePc = "idle"

SizeIdle ==
  /\ inW = 0
  /\ inH = 0
  /\ sizeOut = None
  /\ resizeOut = None
  /\ sizePc = "idle"

BatchIdle ==
  /\ dirEntries = {}
  /\ pattern = <<>>
  /\ format = "PNG"
  /\ outDir = "absent"
  /\ canCreate = FALSE
  /\ pc = "idle"
  /\ files = <<>>
  /\ idx = 1
  /\ results = <<>>
  /\ outFiles = {}
  /\ processed = <<>>
  /\ listed = FALSE
  /\ listFailed = FALSE

SizeInit ==
  /\ inW \in Dims
  /\ inH \in Dims
  /\ sizeOut = None
  /\ resizeOut = None
  /\ sizePc = "call"
  /\ FileIdle
  /\ BatchIdle

\* lines 78: targetSize = CalculateTelegramSize(input.cols, input.rows)
SizeCall ==
  /\ sizePc = "call"
  /\ \E s \in CalculateTelegramSize(inW, inH) : sizeOut' = s
  /\ sizePc' = "sized"
  /\ UNCHANGED <<inW, inH, resizeOut, fileVars, batchVars>>

\* lines 80-83: cv::resize to the computed size
SizeResize ==
  /\ sizePc = "sized"
  /\ resizeOut' = cvResize(Mat(inW, inH, 4), sizeOut)
  /\ sizePc' = "resized"
  /\ UNCHANGED <<inW, inH, sizeOut, fileVars, batchVars>>

SizeNext == SizeCall \/ SizeResize

SizeSpec == SizeInit /\ [][SizeNext]_vars

(***************************************************************************)
(* FileSpec: main's single-file mode on one input file: IsAnimatedImage,   *)
(* then ProcessAnimation or ProcessImage.                                  *)
(***************************************************************************)
JpegBytes == <<"J", "F", "I", "F", "x", "x", "x", "x",
               "x", "x", "x", "x", "x", "x", "x", "x">>
PngBytes == <<"P", "N", "G", "x", "x", "x", "x", "x",
              "I", "H", "D", "R", "x", "x", "x", "x">>
GifBytes == <<"G", "I", "F", "8", "9", "a", "x", "x",
              "x", "x", "x", "x", "x", "x", "x", "x">>
\* a real WebP file: RIFF, the size, WEBP at offset 8, the first chunk's tag
RiffWebpBytes == <<"R", "I", "F", "F", "x", "x", "x", "x",
                   "W", "E", "B", "P", "V", "P", "8", "X">>
\* the tag WEBP at offset 12
TagAt12Bytes == <<"x", "x", "x", "x", "x", "x", "x", "x",
                  "x", "x", "x", "x", "W", "E", "B", "P">>
\* the same, with one more byte after the 16
TagAt12LongBytes == TagAt12Bytes \o <<"x">>
\* one byte short of 16
ShortBytes == SubSeq(TagAt12Bytes, 2, 16)

Contents ==
  { Content(TRUE, JpegBytes, Mat(1024, 512, 3), NotGif),
    Content(TRUE, PngBytes, Mat(300, 600, 4), NotGif),
    Content(TRUE, PngBytes, Mat(512, 93, 1), NotGif),
    Content(TRUE, PngBytes, Mat(600, 300, 2), NotGif),
    Content(TRUE, JpegBytes, Mat(1024, 1, 3), NotGif),
    Content(TRUE, <<>>, EmptyMat, NotGif),
    Content(FALSE, TagAt12Bytes, EmptyMat, NotGif),
    Content(TRUE, GifBytes, EmptyMat, Gif(TRUE, TRUE, 2, TRUE, FALSE, 128, 93)),
    Content(TRUE, GifBytes, Mat(128, 93, 3), Gif(TRUE, TRUE, 1, FALSE, TRUE, 128, 93)),
    Content(TRUE, GifBytes, EmptyMat, Gif(TRUE, TRUE, 1, FALSE, FALSE, 128, 93)),
    Content(TRUE, GifBytes, EmptyMat, Gif(TRUE, TRUE, 0, TRUE, FALSE, 0, 0)),
    Content(TRUE, GifBytes, EmptyMat, Gif(TRUE, FALSE, 0, FALSE, FALSE, 0, 0)),
    Content(TRUE, GifBytes, EmptyMat, Gif(TRUE, TRUE, 1, TRUE, FALSE, 1, 1024)),
    Content(TRUE, RiffWebpBytes, Mat(600, 600, 4), NotGif),
    Content(TRUE, TagAt12Bytes, EmptyMat, NotGif),
    Content(TRUE, TagAt12LongBytes, Mat(300, 600, 3), NotGif),
    Content(TRUE, ShortBytes, EmptyMat, NotGif) }

Names ==
  { Str(<<"a", ".", "j", "p", "g">>),
    Str(<<"b", ".", "g", "i", "f">>),
    Str(<<"C", ".", "G", "I", "F">>),
    Str(<<"d", ".", "G", "i", "f">>),
    Str(<<"e", ".", "w", "e", "b", "p">>),
    Str(<<"F", ".", "W", "e", "b", "P">>),
    Str(<<"g">>),
    Str(<<".", "g", "i", "f">>),
    Str(<<"h", ".", "g", "i", "f", ".", "p", "n", "g">>) }

FileInit ==
  /\ \E name \in Names, content \in Contents :
       probe = File(name, TRUE, content)
  /\ probeAnimated = None
  /\ probeOut = None
  /\ probePc = "start"
  /\ SizeIdle
  /\ BatchIdle

\* main: if (IsAnimatedImage(args.inputPath))
FileSniff ==
  /\ probePc = "start"
  /\ probeAnimated' = [kind |-> "bool", value |-> IsAnimatedImage(probe)]
  /\ probePc' = "sniffed"
  /\ UNCHANGED <<probe, probeOut, sizeVars, batchVars>>

\* main: ProcessAnimation(args.inputPath, args.outputPath, args.options)
FileProcessAnimation ==
  /\ probePc = "sniffed"
  /\ probeAnimated.value
  /\ \E write \in WriteOutcomes :
       \E o \in ProcessAnimation(probe, write) : probeOut' = o
  /\ probePc' = "done"
  /\ UNCHANGED <<probe, probeAnimated, sizeVars, batchVars>>

\* main: ProcessImage(args.inputPath, args.outputPath, args.options)
FileProcessImage ==
  /\ probePc = "sniffed"
  /\ ~probeAnimated.value
  /\ \E write \in WriteOutcomes :
       \E o \in ProcessImage(probe, write) : probeOut' = o
  /\ probePc' = "done"
  /\ UNCHANGED <<probe, probeAnimated, sizeVars, batchVars>>

FileNext == FileSniff \/ FileProcessAnimation \/ FileProcessImage

FileSpec == FileInit /\ [][FileNext]_vars

(***************************************************************************)
(* Batch mode.  Paths: a file of the input directory is known by its name  *)
(* there, an output file by its name in the output directory; the two      *)
(* directories themselves have the empty name.                             *)
(***************************************************************************)
InPath(name) == [root |-> "inputDir", name |-> name]
OutPath(name) == [root |-> "outputDir", name |-> name]

ProcessingResult(inputPath, outputPath, success, error) ==
  [inputPath |-> inputPath, outputPath |-> outputPath,
   success |-> success, error |-> error]

\* operator< of two paths within one directory: the file names, compared
\* character by character
RECURSIVE LexLess(_, _)
LexLess(a, b) ==
  IF b = <<>> THEN FALSE
  ELSE IF a = <<>> THEN TRUE
  ELSE IF a[1] # b[1] THEN a[1] < b[1]
  ELSE LexLess(Tail(a), Tail(b))

RECURSIVE Insert(_, _)
Insert(x, s) ==
  IF s = <<>> THEN <<x>>
  ELSE IF LexLess(x, s[1]) THEN <<x>> \o s
  ELSE <<s[1]>> \o Insert(x, Tail(s))

\* std::sort(matches.begin(), matches.end())
RECURSIVE SortPaths(_)
SortPaths(s) == IF s = <<>> THEN <<>> ELSE Insert(s[1], SortPaths(Tail(s)))

\* the body of the loop of GetMatchingFiles: whether entry is pushed
MatchEntry(entry, pat) ==
  IF ~entry.regular THEN FALSE
  ELSE IF pat = Str(<<"*">>) THEN TRUE
  ELSE IF Len(pat) > 2 /\ pat[1] = 42 /\ pat[2] = 46
       THEN LET patternExt == SubSeq(pat, 2, Len(pat))
                fileExt == Extension(entry.name)
            IN  ToLowerStr(fileExt) = ToLowerStr(patternExt)
       ELSE FALSE

RECURSIVE CollectMatches(_, _)
CollectMatches(listing, pat) ==
  IF listing = <<>> THEN <<>>
  ELSE (IF MatchEntry(listing[1], pat) THEN <<listing[1].name>> ELSE <<>>)
       \o CollectMatches(Tail(listing), pat)

\* ImageProcessor::GetMatchingFiles.  listing is the directory in the order
\* the iterator yields it, seen the number of entries handled before the
\* iteration raised an error (all of them when it raised none): the error is
\* caught and what was collected is sorted and returned
GetMatchingFiles(listing, seen, pat) ==
  SortPaths(CollectMatches(SubSeq(listing, 1, seen), pat))

\* ImageProcessor::EnsureDirectoryExists: its result and what is at the path
\* afterwards
EnsureDirectoryExists(at, creatable) ==
  IF at # "absent" THEN [ok |-> TRUE, at |-> at]
  ELSE IF creatable THEN [ok |-> TRUE, at |-> "dir"]
  ELSE [ok |-> FALSE, at |-> at]

\* fs::path::replace_extension
ReplaceExtension(name, ext) ==
  SubSeq(name, 1, Len(name) - Len(Extension(name))) \o ext

\* the output path built by appending the format's extension to the whole
\* file name
OutputNameKeepsExtension(name, fmt) ==
  name \o (IF fmt = "WEBP" THEN Str(<<".", "w", "e", "b", "p">>)
                           ELSE Str(<<".", "p", "n", "g">>))

\* the output path ProcessDirectory constructs for a matched file
OutputName(name, fmt) ==
  ReplaceExtension(name, IF fmt = "WEBP" THEN Str(<<".", "w", "e", "b", "p">>)
                                         ELSE Str(<<".", "p", "n", "g">>))

\* the orders in which the directory iterator can yield a set of entries
Listings(entries) ==
  {l \in [1 .. Cardinality(entries) -> entries] :
     \A i, j \in 1 .. Cardinality(entries) : i # j => l[i] # l[j]}

Universe ==
  { File(Str(<<"a", ".", "j", "p", "g">>), TRUE,
         Content(TRUE, JpegBytes, Mat(1024, 512, 3), NotGif)),
    File(Str(<<"b", ".", "p", "n", "g">>), TRUE,
         Content(TRUE, PngBytes, Mat(300, 600, 4), NotGif)),
    File(Str(<<"c", ".", "t", "x", "t">>), TRUE,
         Content(TRUE, <<"h", "e", "l", "l", "o">>, EmptyMat, NotGif)),
    File(Str(<<"a", ".", "p", "n", "g">>), TRUE,
         Content(TRUE, PngBytes, Mat(512, 93, 1), NotGif)),
    File(Str(<<"B", ".", "J", "P", "G">>), TRUE,
         Content(TRUE, JpegBytes, Mat(1024, 1, 3), NotGif)),
    File(Str(<<"d", ".", "g", "i", "f">>), TRUE,
         Content(TRUE, GifBytes, EmptyMat,
                 Gif(TRUE, TRUE, 2, TRUE, FALSE, 128, 93))),
    File(Str(<<"s", "u", "b", ".", "j", "p", "g">>), FALSE,
         Content(FALSE, <<>>, EmptyMat, NotGif)),
    File(Str(<<"a", ".", "b", ".", "j", "p", "g">>), TRUE,
         Content(TRUE, JpegBytes, Mat(600, 600, 3), NotGif)) }

Patterns ==
  { Str(<<"*">>),
    Str(<<"*", ".", "j", "p", "g">>),
    Str(<<"*", ".", "P", "n", "G">>),
    Str(<<"*", ".">>) }

Init ==
  /\ dirEntries \in {d \in SUBSET Universe : Cardinality(d) <= MaxFiles}
  /\ pattern \in Patterns
  /\ format \in {"PNG", "WEBP"}
  /\ outDir \in {"absent", "dir", "file"}
  /\ canCreate \in BOOLEAN
  /\ (outDir # "absent" => canCreate = FALSE)
  /\ pc = "start"
  /\ files = <<>>
  /\ idx = 1
  /\ results = <<>>
  /\ outFiles = {}
  /\ processed = <<>>
  /\ listed = FALSE
  /\ listFailed = FALSE
  /\ SizeIdle
  /\ FileIdle

\* ProcessDirectory, lines 356-359: the output directory cannot be ensured
DirEnsureFails ==
  /\ pc = "start"
  /\ ~EnsureDirectoryExists(outDir, canCreate).ok
  /\ results' = <<ProcessingResult(InPath(<<>>), OutPath(<<>>), FALSE,
                                   "cannot create output directory")>>
  /\ pc' = "done"
  /\ UNCHANGED <<envVars, outDir, files, idx, outFiles, processed, listed,
                 listFailed, sizeVars, fileVars>>

\* ProcessDirectory, lines 356-365 and the loop's entry: the directory is
\* ensured and listed; an empty match list ends the batch
DirList ==
  /\ pc = "start"
  /\ EnsureDirectoryExists(outDir, canCreate).ok
  /\ outDir' = EnsureDirectoryExists(outDir, canCreate).at
  /\ \E listing \in Listings(dirEntries) :
       \E seen \in 0 .. Len(listing) :
         \E failed \in (IF seen < Len(listing) THEN {TRUE} ELSE BOOLEAN) :
           /\ files' = GetMatchingFiles(listing, seen, pattern)
           /\ listFailed' = failed
  /\ listed' = TRUE
  /\ IF files' = <<>>
     THEN /\ results' = <<ProcessingResult(InPath(<<>>), OutPath(<<>>), FALSE,
                                           "no matching files found")>>
          /\ pc' = "done"
     ELSE /\ results' = <<>>
          /\ pc' = "loop"
  /\ UNCHANGED <<envVars, idx, outFiles, processed, sizeVars, fileVars>>

\* what cv::imwrite can do under the output path
WritesAt(at) == IF at = "dir" THEN WriteOutcomes ELSE {"fail"}

\* the loop leaving at the first file whose pipeline fails
DirFileStopOnFailure ==
  /\ pc = "loop"
  /\ idx <= Len(files)
  /\ LET inputPath == files[idx]
         f == CHOOSE e \in dirEntries : e.name = inputPath
         outputPath == OutputName(inputPath, format)
     IN  \E write \in WritesAt(outDir) :
           \E o \in (IF IsAnimatedImage(f) THEN ProcessAnimation(f, write)
                                           ELSE ProcessImage(f, write)) :
             /\ results' = Append(results,
                  ProcessingResult(InPath(inputPath), OutPath(outputPath),
                    o.success, IF o.success THEN "" ELSE "Processing failed"))
             /\ outFiles' =
                  IF o.success
                  THEN {w \in outFiles : w.path # outputPath}
                       \cup {[path |-> outputPath, from |-> inputPath,
                              image |-> o.written]}
                  ELSE outFiles
             /\ processed' = Append(processed, inputPath)
             /\ pc' = IF idx = Len(files) \/ ~o.success THEN "done" ELSE "loop"
  /\ idx' = idx + 1
  /\ UNCHANGED <<envVars, outDir, files, listed, listFailed, sizeVars, fileVars>>

\* ProcessDirectory, lines 367-401: one iteration of the loop over files
DirFile ==
  /\ pc = "loop"
  /\ idx <= Len(files)
  /\ LET inputPath == files[idx]
         f == CHOOSE e \in dirEntries : e.name = inputPath
         outputPath == OutputName(inputPath, format)
     IN  \E write \in WritesAt(outDir) :
           \E o \in (IF IsAnimatedImage(f) THEN ProcessAnimation(f, write)
                                           ELSE ProcessImage(f, write)) :
             /\ results' = Append(results,
                  ProcessingResult(InPath(inputPath), OutPath(outputPath),
                    o.success, IF o.success THEN "" ELSE "Processing failed"))
             /\ outFiles' =
                  IF o.success
                  THEN {w \in outFiles : w.path # outputPath}
                       \cup {[path |-> outputPath, from |-> inputPath,
                              image |-> o.written]}
                  ELSE outFiles
             /\ processed' = Append(processed, inputPath)
  /\ idx' = idx + 1
  /\ pc' = IF idx = Len(files) THEN "done" ELSE "loop"
  /\ UNCHANGED <<envVars, outDir, files, listed, listFailed, sizeVars, fileVars>>

Next == DirEnsureFails \/ DirList \/ DirFile

Spec == Init /\ [][Next]_vars

(***************************************************************************)
(* Properties of the size computation (SizeSpec).                          *)
(***************************************************************************)
Sized == sizePc \in {"sized", "resized"}

\* C1, as stated: for w > 0 and h > 0 exactly one dimension of the target
\* size equals 512 and the other is at most 512
C1_ExactlyOneIs512 ==
  (Sized /\ inW > 0 /\ inH > 0) =>
    /\ (sizeOut.width = 512) # (sizeOut.height = 512)
    /\ sizeOut.width <= 512
    /\ sizeOut.height <= 512

\* C1, amended: for w > 0 and h > 0 the dimension along the longer input edge
\* is 512 (the width when w >= h, else the height), the other one lies in
\* 0 .. 512, and both are 512 exactly when w = h
C1_LongEdgeIs512 ==
  (Sized /\ inW > 0 /\ inH > 0) =>
    /\ (inW >= inH => sizeOut.width = 512)
    /\ (inW < inH => sizeOut.height = 512)
    /\ sizeOut.width \in 0 .. 512
    /\ sizeOut.height \in 0 .. 512
    /\ (sizeOut.width = 512 /\ sizeOut.height = 512) <=> (inW = inH)

\* a square input has been sized to 512 x 512
C1_SquareWitness ==
  /\ sizePc = "sized"
  /\ inW = 7
  /\ inH = 7
  /\ sizeOut = Size(512, 512)

\* C2: for w > 0 and h > 0 the target size is (512, floor(512*h/w)) when
\* w >= h and (floor(512*w/h), 512) otherwise
C2_EqualsFloorReference ==
  (Sized /\ inW > 0 /\ inH > 0) =>
    sizeOut = IF inW >= inH THEN Size(512, (512 * inH) \div inW)
                            ELSE Size((512 * inW) \div inH, 512)

\* C3: a call with height = 0 ends in an error, not in a target size
C3_ZeroHeightIsError ==
  (Sized /\ inH = 0) => sizeOut.kind = "error"

(***************************************************************************)
(* Properties of the single-file pipelines (FileSpec).                     *)
(***************************************************************************)
\* C4: an image handed to the resize step has exactly 4 channels; any other
\* channel count than 3 or 4 makes the pipeline fail before the resize
C4_FourChannelsAtResize ==
  (probePc = "done" /\ probeOut.channels # 0) => probeOut.channels = 4

SameIgnoringCase(c, d) ==
  \/ c = d
  \/ (c \in 65 .. 90 /\ d = c + 32)
  \/ (d \in 65 .. 90 /\ c = d + 32)

EqualIgnoringCase(s, t) ==
  /\ Len(s) = Len(t)
  /\ \A i \in 1 .. Len(s) : SameIgnoringCase(s[i], t[i])

\* C9: IsAnimatedImage answers true for every .gif name whatever the file
\* holds, for a .webp name exactly when 16 bytes can be read and bytes
\* 12..15 are WEBP, and false for every other name; it always answers
C9_SniffByExtension ==
  (probePc \in {"sniffed", "done"}) =>
    /\ probeAnimated.kind = "bool"
    /\ probeAnimated.value =
         LET ext == Extension(probe.name) IN
         \/ EqualIgnoringCase(ext, Str(<<".", "g", "i", "f">>))
         \/ /\ EqualIgnoringCase(ext, Str(<<".", "w", "e", "b", "p">>))
            /\ probe.content.readable
            /\ Len(probe.content.bytes) >= 16
            /\ \A i \in 1 .. 4 : probe.content.bytes[12 + i] = WEBP[i]

\* a file named C.GIF that holds no GIF has been classified as animated
C9_UpperCaseGifWitness ==
  /\ probePc = "sniffed"
  /\ probe.name = Str(<<"C", ".", "G", "I", "F">>)
  /\ probe.content.bytes = JpegBytes
  /\ probeAnimated.value

\* C10, as stated: on the animated path the general-purpose reader is tried
\* first and ReadGifFirstFrame only after it failed, and a decode failure is
\* reported only after both were tried and failed
C10_FallbackChain ==
  (probePc = "done" /\ probeAnimated.value) =>
    /\ probeOut.decoders[1] = "imread"
    /\ (Len(probeOut.decoders) = 2) <=> MatEmpty(probe.content.imread)
    /\ (probeOut.channels = 0 => probeOut.decoders = <<"imread", "giflib">>)

(***************************************************************************)
(* Properties of the batch (Spec).                                         *)
(***************************************************************************)
\* the pattern rule as the claims word it: "*" matches every name, "*.ext"
\* the names whose extension is ".ext", letter case ignored
MatchesPattern(name, pat) ==
  \/ pat = <<42>>
  \/ /\ Len(pat) >= 3
     /\ pat[1] = 42
     /\ pat[2] = 46
     /\ EqualIgnoringCase(Extension(name), SubSeq(pat, 2, Len(pat)))

Wanted == {e.name : e \in {d \in dirEntries : d.regular /\ MatchesPattern(d.name, pattern)}}

Listed == {files[i] : i \in 1 .. Len(files)}

FilesSorted == \A i \in 1 .. Len(files) - 1 : LexLess(files[i], files[i + 1])

\* C5: with the output directory available and a non-empty match list, the
\* batch ends with one result per matched file, the i-th for the i-th match
\* in sorted order, whichever files failed, and every match was processed
C5_OneResultPerMatch ==
  (pc = "done" /\ files # <<>>) =>
    /\ Len(results) = Len(files)
    /\ \A i \in 1 .. Len(files) : results[i].inputPath = InPath(files[i])
    /\ FilesSorted
    /\ processed = files

\* a batch has ended in which the first file failed and the second succeeded
C5_FailureThenSuccessWitness ==
  /\ pc = "done"
  /\ Len(results) >= 2
  /\ ~results[1].success
  /\ results[2].success

\* no directory can be made at the output path: a regular file is there, or
\* nothing is and create_directories fails
CannotCreate == outDir = "file" \/ (outDir = "absent" /\ ~canCreate)

\* C6: when the output directory cannot be created the input directory is
\* neither listed nor processed, no per-file record is produced, and the
\* batch ends with a single failed result for the whole batch
C6_UncreatableDirShortCircuits ==
  CannotCreate =>
    /\ ~listed
    /\ processed = <<>>
    /\ outFiles = {}
    /\ pc = "done" =>
         /\ Len(results) = 1
         /\ ~results[1].success
         /\ results[1].inputPath = InPath(<<>>)
         /\ results[1].outputPath = OutPath(<<>>)

\* C7: when no file of the input directory matches, the batch ends with a
\* single failed result and the output directory exists
C7_NoMatchStillCreatesDir ==
  (pc = "done" /\ listed /\ Wanted = {}) =>
    /\ Len(results) = 1
    /\ ~results[1].success
    /\ outDir = "dir"

ExampleNames ==
  { Str(<<"a", ".", "j", "p", "g">>),
    Str(<<"b", ".", "p", "n", "g">>),
    Str(<<"c", ".", "t", "x", "t">>) }

\* C8: the match list is exactly the regular files of the directory that
\* match the pattern, and a directory holding a.jpg, b.png and c.txt gives
\* under "*.jpg" a batch of exactly one result, for a.jpg
C8_ExactlyTheMatches ==
  listed =>
    /\ Listed = Wanted
    /\ (/\ pc = "done"
        /\ {e.name : e \in dirEntries} = ExampleNames
        /\ pattern = Str(<<"*", ".", "j", "p", "g">>))
       => (/\ Len(results) = 1
           /\ results[1].inputPath = InPath(Str(<<"a", ".", "j", "p", "g">>)))

\* the base name of a file without its extension, as the claims word it: the
\* name up to its last dot, the whole name when it has no dot or only a
\* leading one
BaseName(name) ==
  LET dots == {i \in 2 .. Len(name) : name[i] = 46} IN
  IF dots = {} \/ name = <<46, 46>> THEN name
  ELSE SubSeq(name, 1, (CHOOSE i \in dots : \A j \in dots : j <= i) - 1)

FormatSuffix(fmt) ==
  IF fmt = "WEBP" THEN <<46, 119, 101, 98, 112>> ELSE <<46, 112, 110, 103>>

\* the index of the last successful result written to the path of result i
LastWriter(i) ==
  CHOOSE j \in 1 .. Len(results) :
    /\ results[j].success
    /\ results[j].outputPath = results[i].outputPath
    /\ \A k \in 1 .. Len(results) :
         (results[k].success /\ results[k].outputPath = results[i].outputPath)
           => k <= j

\* C11: a matched file's output path is the output directory, the file's base
\* name without extension and the format's extension, so two matched files
\* that differ only in extension get the same output path; both are
\* processed, each has its own record, and the output directory holds one
\* file at that path, written by the last of them that succeeded
C11_SameBaseNameOverwrites ==
  files # <<>> =>
    /\ \A i \in 1 .. Len(results) :
         /\ results[i].inputPath = InPath(files[i])
         /\ results[i].outputPath =
              OutPath(BaseName(files[i]) \o FormatSuffix(format))
         /\ results[i].success =>
              \E w \in outFiles :
                /\ OutPath(w.path) = results[i].outputPath
                /\ w.from = files[LastWriter(i)]
    /\ \A v, w \in outFiles : v.path = w.path => v = w
    /\ \A w \in outFiles :
         \E i \in 1 .. Len(results) :
           results[i].success /\ results[i].outputPath = OutPath(w.path)
    /\ pc = "done" =>
         \A i, j \in 1 .. Len(files) :
           (i < j /\ BaseName(files[i]) = BaseName(files[j])) =>
             /\ processed[i] = files[i]
             /\ processed[j] = files[j]
             /\ results[i].outputPath = results[j].outputPath
             /\ (results[i].success /\ results[j].success) =>
                  \A w \in outFiles :
                    OutPath(w.path) = results[j].outputPath =>
                      w.from = files[j]

\* a.jpg and a.png were both converted; the one file left at their common
\* output path is the single-channel image written for a.png
C11_OverwriteWitness ==
  /\ pc = "done"
  /\ files = << Str(<<"a", ".", "j", "p", "g">>),
                Str(<<"a", ".", "p", "n", "g">>) >>
  /\ Len(results) = 2
  /\ results[1].success
  /\ results[2].success
  /\ results[1].outputPath = results[2].outputPath
  /\ Cardinality(outFiles) = 1
  /\ \A w \in outFiles :
       /\ w.from = Str(<<"a", ".", "p", "n", "g">>)
       /\ w.image.channels = 1

====
